---- MODULE Spec2Model ----
(***************************************************************************)
(* Model of Run_P2S/Pre_Processing.py: organize_videos walks the rows of   *)
(* the experiment log in file order; for each row it derives the session,  *)
(* batch and trial directories from running counters and lets move_videos  *)
(* pick, per camera folder, the video whose creation time is closest to    *)
(* the row's time, rename it in place and copy it to the row's directory.  *)
(*                                                                         *)
(* Times are seconds since 2025-03-01T00:00:00; every date of the model    *)
(* lies in March 2025, the month in which America/Montreal switches to     *)
(* daylight-saving time (2025-03-09 02:00 local, 07:00 UTC).               *)
(*                                                                         *)
(* Spec is one run of organize_videos; SpecDst is one run on source trees  *)
(* whose videos were created around that change; SpecRerun lets a run that *)
(* returned be followed by a second run with the same log.                 *)
(***************************************************************************)
EXTENDS Integers, Sequences, FiniteSets, TLC

VARIABLES
    pc,             \* "start", "loop", "done" or "crashed": position in organize_videos
    err,            \* name of the exception that ended the run, "none" otherwise
    log,            \* rows handed out so far by test_log_file.iterrows()
    current_date,   \* organize_videos local: "None" or the date string of the session
    base_path,      \* organize_videos local: session root (<<>> while unbound)
    batch_counter,  \* organize_videos local (0 while unbound)
    trial_counters, \* organize_videos local: dict Athlete ID -> count
    batch_path,     \* organize_videos local: <<>> while unbound
    pool,           \* source tree: physical video id -> [cam, name, meta]
    dirs,           \* directories that exist under destination_folder
    dest,           \* copied videos: set of [dir, name, content]
    pasted,         \* folders handed to paste_config_file
    merged,         \* intrinsics folders handed to add_intrinsics_videos
    logged,         \* records emitted through the logging module
    os_name,        \* platform of os.rename: "unresolved" until it first matters
    hist,           \* per row: the counter and directory organize_videos used, the
                    \* video move_videos chose per camera, the cameras it finished,
                    \* the copies it made, and whether the iteration completed
    lastPool,       \* source tree as it was before the last row
    lastListing,    \* os.listdir order of each camera folder used for the last row
    earlier         \* what an earlier run of organize_videos on this tree left:
                    \* its log, its per-row record and the copies it made

vars == <<pc, err, log, current_date, base_path, batch_counter, trial_counters,
          batch_path, pool, dirs, dest, pasted, merged, logged, os_name, hist,
          lastPool, lastListing, earlier>>

----------------------------------------------------------------------------
(* Bounds *)

MaxRows == 3

----------------------------------------------------------------------------
(* Calendar, clock and time zone *)

SecondsPerMinute == 60
SecondsPerHour == 60 * 60
SecondsPerDay == 24 * 60 * 60

\* UTC offsets of America/Montreal (EST and EDT) and the instant of the 2025
\* spring-forward transition.
StdOffset == 0 - 5 * SecondsPerHour
DstOffset == 0 - 4 * SecondsPerHour
DstStartUtc == 8 * SecondsPerDay + 7 * SecondsPerHour

Abs(x) == IF x < 0 THEN 0 - x ELSE x

Pad2(n) == IF n < 10 THEN "0" \o ToString(n) ELSE ToString(n)

\* A spreadsheet Date cell: a day of March 2025, or NaT for an empty cell.
NaT == [y |-> 0, m |-> 0, d |-> 0]
March(day) == [y |-> 2025, m |-> 3, d |-> day]

\* row["Date"].strftime("%Y-%m-%d")
StrftimeDate(date) == ToString(date.y) \o "-" \o Pad2(date.m) \o "-" \o Pad2(date.d)

\* datetime.combine(row["Date"], row["Time"])
Combine(date, time) ==
    (date.d - 1) * SecondsPerDay + time.h * SecondsPerHour
        + time.m * SecondsPerMinute + time.s

\* target_time.strftime('%Y-%m-%d_%Hh%M') of an aware datetime: its wall clock,
\* seconds dropped.
StrftimeStamp(dt) ==
    LET day == dt.wall \div SecondsPerDay + 1
        sod == dt.wall % SecondsPerDay
    IN  "2025-03-" \o Pad2(day) \o "_" \o Pad2(sod \div SecondsPerHour) \o "h"
            \o Pad2((sod % SecondsPerHour) \div SecondsPerMinute)

\* Line 112 with the standard-time offset attached whatever the date.
LocalizeFixedOffset(naive) == [wall |-> naive, off |-> StdOffset]

\* pytz: local_tz.localize(naive) with the default is_dst=False. A wall time
\* the zone reaches on daylight-saving time gets EDT, every other one (the
\* skipped hour included) gets EST; localize never raises with is_dst=False.
Localize(naive) ==
    [wall |-> naive,
     off  |-> IF naive - DstOffset >= DstStartUtc THEN DstOffset ELSE StdOffset]

\* pytz: utc.localize(naive).astimezone(local_tz)
AsTimezone(utc) ==
    LET off == IF utc >= DstStartUtc THEN DstOffset ELSE StdOffset
    IN  [wall |-> utc + off, off |-> off]

ConvertToLocalTime(datetime_obj, adjust_time) ==
    IF adjust_time THEN AsTimezone(datetime_obj) ELSE Localize(datetime_obj)

\* (a - b).total_seconds() of two aware datetimes: difference of the instants.
TotalSeconds(a, b) == (a.wall - a.off) - (b.wall - b.off)

----------------------------------------------------------------------------
(* Inputs: the rows of the log and the content of the source tree *)

Cameras == {"cam1", "cam2"}

AthleteIDs == {"A001", "B002"}

Dates == {March(8), March(9)}

Times == {[h |-> 10, m |-> 0, s |-> 30]}

\* The rows of the log whose Date and Time cells hold a date and a time: the
\* calibration rows and the others.
CalibrationRows ==
    [Date : Dates, Time : Times, Trials : {"calibration"}, AthleteID : {"nan"}]

TrialRows ==
    [Date : Dates, Time : Times, Trials : {"jump"}, AthleteID : AthleteIDs]

ValidRows == CalibrationRows \cup TrialRows

\* A row whose Date cell is empty: pandas reads it as NaT.
InvalidRows ==
    [Date : {NaT}, Time : Times, Trials : {"jump"}, AthleteID : {"A001"}]

Rows == ValidRows \cup InvalidRows

\* What ffmpeg.probe finds in a video: the probe fails, or the format tags
\* lack creation_time, or the tag holds text strptime rejects, or it holds
\* 2025-03-<d>T<H>:<M>:<S>.000000Z.
Stamp(d, H, M, S) == [probe |-> "ok", form |-> "iso", d |-> d, H |-> H, M |-> M, S |-> S]
Unreadable(probe, form) == [probe |-> probe, form |-> form, d |-> 0, H |-> 0, M |-> 0, S |-> 0]

\* The videos a source tree of the model may hold, by id: two readable ones,
\* 20 seconds before and after the time of the rows of March 8, and one for
\* each way of being unreadable.
Metas ==
    << Stamp(8, 15, 0, 10), Stamp(8, 15, 0, 50),
       Unreadable("error", "absent"), Unreadable("ok", "absent"),
       Unreadable("ok", "malformed") >>

OriginalName(id) == "GX01000" \o ToString(id) \o ".mp4"

\* The source trees of the model: any of the videos, each in either camera
\* folder.
InitialPools ==
    UNION { { [id \in ids |-> [cam  |-> place[id],
                               name |-> OriginalName(id),
                               meta |-> Metas[id]]] :
              place \in [ids -> Cameras] } :
            ids \in SUBSET DOMAIN Metas }

\* Videos created at the instant of the row of March 8 (10:00:30 EST) and of
\* the row of March 9 (10:00:30 EDT), and one hour off each.
DstMetas ==
    << Stamp(8, 15, 0, 30), Stamp(8, 14, 0, 30),
       Stamp(9, 14, 0, 30), Stamp(9, 15, 0, 30) >>

\* The source trees made of those videos: any of them, the two of March 8 in
\* cam1 and the two of March 9 in cam2.
DstPools ==
    { [id \in ids |-> [cam  |-> IF DstMetas[id].d = 8 THEN "cam1" ELSE "cam2",
                       name |-> OriginalName(id),
                       meta |-> DstMetas[id]]] :
      ids \in SUBSET DOMAIN DstMetas }

FilesIn(p, cam) == { f \in DOMAIN p : p[f].cam = cam }

PermsOf(S) ==
    { q \in [1..Cardinality(S) -> S] :
        \A i \in DOMAIN q : \A j \in DOMAIN q : q[i] = q[j] => i = j }

\* The orders in which os.listdir may enumerate the camera folders.
CameraOrders == PermsOf(Cameras)

\* The orders in which os.listdir may enumerate each camera folder (every file
\* of the model is an .mp4 file, so video_files is the whole folder).
Listings(p) ==
    { l \in [Cameras -> UNION { PermsOf(FilesIn(p, c)) : c \in Cameras }] :
        \A c \in Cameras : l[c] \in PermsOf(FilesIn(p, c)) }

----------------------------------------------------------------------------
(* Paths and directories *)

Join(path, name) == Append(path, name)

\* os.makedirs(path, exist_ok=True): the path and every missing parent.
MakeDirs(ds, path) == ds \cup { SubSeq(path, 1, k) : k \in 1..Len(path) }

\* create_folder_structure: the batch folder, then the trial folder or the two
\* calibration folders.
CreateFolderStructure(ds, path, trial_name) ==
    IF trial_name # ""
    THEN MakeDirs(MakeDirs(ds, path), Join(path, trial_name))
    ELSE MakeDirs(MakeDirs(MakeDirs(ds, path),
                           Join(Join(path, "calibration"), "intrinsics")),
                  Join(Join(path, "calibration"), "extrinsics"))

----------------------------------------------------------------------------
(* get_video_creation_time *)

Strptime(meta) ==
    (meta.d - 1) * SecondsPerDay + meta.H * SecondsPerHour
        + meta.M * SecondsPerMinute + meta.S

\* Only ffmpeg.Error is caught: a missing tag raises KeyError and an
\* unparsable value raises ValueError out of the function.
GetVideoCreationTime(meta) ==
    IF meta.probe = "error" THEN [kind |-> "none", t |-> 0, exc |-> "none"]
    ELSE IF meta.form = "absent" THEN [kind |-> "raise", t |-> 0, exc |-> "KeyError"]
    ELSE IF meta.form = "malformed" THEN [kind |-> "raise", t |-> 0, exc |-> "ValueError"]
    ELSE [kind |-> "value", t |-> Strptime(meta), exc |-> "none"]

----------------------------------------------------------------------------
(* move_videos *)

NoDiff == 0 - 1     \* closest_time_diff = None
NoVideo == 0        \* closest_video = None

\* The test of line 175 with <= for <: the last of several equally close
\* videos would win.
IsCloserOrEqual(time_diff, closest_time_diff) ==
    closest_time_diff = NoDiff \/ time_diff <= closest_time_diff

\* The test of line 175 that makes a video the new closest one.
IsCloser(time_diff, closest_time_diff) ==
    closest_time_diff = NoDiff \/ time_diff < closest_time_diff

\* The loop over video_files (lines 164-177), from the state acc of its
\* locals; it stops at the first exception get_video_creation_time lets out.
RECURSIVE ScanFiles(_, _, _, _)
ScanFiles(listing, p, target_time, acc) ==
    IF listing = <<>> THEN acc
    ELSE LET video == Head(listing)
             got   == GetVideoCreationTime(p[video].meta)
         IN  IF got.kind = "raise"
             THEN [acc EXCEPT !.exc = got.exc]
             ELSE IF got.kind = "none"
             THEN ScanFiles(Tail(listing), p, target_time,
                            [acc EXCEPT !.probeErrors = @ \cup {video}])
             ELSE LET creation_time == ConvertToLocalTime(got.t, TRUE)
                      time_diff == Abs(TotalSeconds(creation_time, target_time))
                  IN  IF IsCloser(time_diff, acc.diff)
                      THEN ScanFiles(Tail(listing), p, target_time,
                                     [acc EXCEPT !.diff = time_diff, !.video = video])
                      ELSE ScanFiles(Tail(listing), p, target_time, acc)

ClosestVideo(listing, p, target_time) ==
    ScanFiles(listing, p, target_time,
              [diff |-> NoDiff, video |-> NoVideo, exc |-> "none", probeErrors |-> {}])

\* new_file_name of line 181
NewFileName(target_time, trial_name, camera_folder) ==
    StrftimeStamp(target_time) \o "_" \o trial_name \o "_" \o camera_folder \o ".mp4"

\* Lines 188-191 without the test on trial_type: every video would go to a
\* videos folder.
DestinationPathFlat(destination_folder, trial_type, camera_folder) ==
    Join(destination_folder, "videos")

\* destination_path of lines 188-191
DestinationPath(destination_folder, trial_type, camera_folder) ==
    IF trial_type = "calibration"
    THEN Join(destination_folder, "ext_" \o camera_folder)
    ELSE Join(destination_folder, "videos")

\* The other videos of the camera folder that already carry the new name.
NameHolders(p, video, camera_folder, new_file_name) ==
    { g \in DOMAIN p : g # video /\ p[g].cam = camera_folder /\ p[g].name = new_file_name }

\* os.rename(closest_video, new_video_path) where it succeeds: a video that
\* carried the new name is replaced.
Rename(p, video, camera_folder, new_file_name) ==
    [g \in DOMAIN p \ NameHolders(p, video, camera_folder, new_file_name) |->
        IF g = video THEN [p[g] EXCEPT !.name = new_file_name] ELSE p[g]]

\* shutil.copy(new_video_path, destination_path): a file of that name in the
\* destination is overwritten.
Copy(d, destination_path, new_file_name, video) ==
    { e \in d : ~(e.dir = destination_path /\ e.name = new_file_name) }
        \cup {[dir |-> destination_path, name |-> new_file_name, content |-> video]}

FfmpegErrors(videos, index, camera_folder) ==
    { [level |-> "ERROR", what |-> "ffmpeg error", row |-> index,
       cam |-> camera_folder, file |-> v] : v \in videos }

\* One pass of the loop over camera_folders (lines 157-197) from the state st
\* of the file system.
MoveCamera(st, camera_folder, listing, destination_folder, target_time, trial_type, trial_name, index, platform) ==
    LET scan == ClosestVideo(listing, st.pool, target_time)
        seen == [st EXCEPT !.logged = @ \cup FfmpegErrors(scan.probeErrors, index, camera_folder)]
        new_file_name == NewFileName(target_time, trial_name, camera_folder)
        destination_path == DestinationPath(destination_folder, trial_type, camera_folder)
    IN  IF scan.exc # "none"
        THEN [seen EXCEPT !.exc = scan.exc]
        ELSE IF scan.video = NoVideo
        THEN [seen EXCEPT !.scanned = @ \cup {camera_folder}]
        ELSE IF NameHolders(st.pool, scan.video, camera_folder, new_file_name) # {}
                /\ platform = "nt"
        THEN [seen EXCEPT !.exc = "FileExistsError", !.clash = TRUE,
                          !.sel[camera_folder] = scan.video]
        ELSE [seen EXCEPT
                !.pool = Rename(st.pool, scan.video, camera_folder, new_file_name),
                !.clash = @ \/ NameHolders(st.pool, scan.video, camera_folder,
                                           new_file_name) # {},
                !.dirs = MakeDirs(@, destination_path),
                !.dest = Copy(@, destination_path, new_file_name, scan.video),
                !.copied = @ \cup {[dir |-> destination_path, name |-> new_file_name,
                                    content |-> scan.video]},
                !.sel[camera_folder] = scan.video,
                !.scanned = @ \cup {camera_folder}]

\* The loop of line 157 if a camera folder without a candidate ended it: the
\* camera folders after it would be left out.
RECURSIVE MoveCamerasStopAtNoCandidate(_, _, _, _, _, _, _, _, _)
MoveCamerasStopAtNoCandidate(st, camera_folders, listing, destination_folder, target_time, trial_type, trial_name, index, platform) ==
    IF \/ camera_folders = <<>>
       \/ st.exc # "none"
       \/ \E c \in st.scanned : st.sel[c] = NoVideo
    THEN st
    ELSE MoveCamerasStopAtNoCandidate(
            MoveCamera(st, Head(camera_folders), listing[Head(camera_folders)],
                       destination_folder, target_time, trial_type, trial_name,
                       index, platform),
            Tail(camera_folders), listing, destination_folder, target_time,
            trial_type, trial_name, index, platform)

RECURSIVE MoveCameras(_, _, _, _, _, _, _, _, _)
MoveCameras(st, camera_folders, listing, destination_folder, target_time, trial_type, trial_name, index, platform) ==
    IF camera_folders = <<>> \/ st.exc # "none" THEN st
    ELSE MoveCameras(
            MoveCamera(st, Head(camera_folders), listing[Head(camera_folders)],
                       destination_folder, target_time, trial_type, trial_name,
                       index, platform),
            Tail(camera_folders), listing, destination_folder, target_time,
            trial_type, trial_name, index, platform)

\* move_videos on the file system fs = [pool, dirs, dest, logged]: the target
\* time is localized, then every camera folder is handled in listing order.
MoveVideos(fs, camera_folders, listing, destination_folder, naive_target, trial_type, trial_name, index, platform) ==
    MoveCameras([pool |-> fs.pool, dirs |-> fs.dirs, dest |-> fs.dest,
                 logged |-> fs.logged, exc |-> "none", clash |-> FALSE,
                 sel |-> [c \in Cameras |-> NoVideo], scanned |-> {}, copied |-> {}],
                camera_folders, listing, destination_folder,
                ConvertToLocalTime(naive_target, FALSE),
                trial_type, trial_name, index, platform)

----------------------------------------------------------------------------
(* organize_videos *)

DestinationFolder == <<>>

Unbound == <<>>

EmptyDict == [a \in {} |-> 0]

\* trial_counters.get(athlete_ID, 0)
Get(dict, key, default) == IF key \in DOMAIN dict THEN dict[key] ELSE default

\* trial_counters[athlete_ID] = trial_counter
Put(dict, key, value) ==
    [a \in DOMAIN dict \cup {key} |-> IF a = key THEN value ELSE dict[a]]

Platforms == IF os_name = "unresolved" THEN {"posix", "nt"} ELSE {os_name}

\* Lines 234-240: the locals after the test on trial_date.
Session(trial_date) ==
    IF trial_date # current_date
    THEN [current_date   |-> trial_date,
          base_path      |-> Join(DestinationFolder, "Session_" \o trial_date),
          dirs           |-> MakeDirs(dirs, Join(DestinationFolder, "Session_" \o trial_date)),
          batch_counter  |-> 1,
          trial_counters |-> EmptyDict]
    ELSE [current_date   |-> current_date,
          base_path      |-> base_path,
          dirs           |-> dirs,
          batch_counter  |-> batch_counter,
          trial_counters |-> trial_counters]

\* Lines 244-245
BatchPath(base, counter) == Join(base, "BatchSession_" \o ToString(counter))

CalibrationName(counter) == "calib_ext_" \o ToString(counter)

\* Line 250 without the increment.
NextBatchCounterStuck(counter) == counter

\* Line 250
NextBatchCounter(counter) == counter + 1

\* Line 254 with one counter shared by every athlete.
NextTrialCounterShared(counters, athlete_ID) ==
    IF DOMAIN counters = {} THEN 1
    ELSE 1 + CHOOSE n \in {counters[a] : a \in DOMAIN counters} :
                 \A a \in DOMAIN counters : counters[a] <= n

\* Line 254
NextTrialCounter(counters, athlete_ID) == Get(counters, athlete_ID, 0) + 1

\* Line 256
TrialName(athlete_ID, trial_counter) ==
    "Trial_" \o athlete_ID \o "_" \o ToString(trial_counter)

\* Line 65 with the trial folder put beside the batch folders, in the session
\* root.
TrialPathInSession(path, trial_name) == Join(SubSeq(path, 1, 1), trial_name)

\* Line 65: trial_path inside the batch session folder
TrialPath(path, trial_name) == Join(path, trial_name)

Info(index) ==
    [level |-> "INFO", what |-> "videos added", row |-> index, cam |-> "", file |-> 0]

\* No run of organize_videos has completed on the source tree yet.
NoEarlierRun == [done |-> FALSE, log |-> <<>>, hist |-> <<>>, dest |-> {}]

\* test_log_file.iterrows(): the rows it may still hand out. The log of a first
\* run is any sequence of at most MaxRows rows; a second run reads the log of
\* the first.
RowLimit == IF earlier.done THEN Len(earlier.log) ELSE MaxRows

NextRows == IF earlier.done THEN {earlier.log[Len(log) + 1]} ELSE Rows

\* The state in which organize_videos is first entered, the source tree being
\* one of pools.
InitialState(pools) ==
    /\ pc = "start"
    /\ err = "none"
    /\ log = <<>>
    /\ current_date = "None"
    /\ base_path = Unbound
    /\ batch_counter = 0
    /\ trial_counters = EmptyDict
    /\ batch_path = Unbound
    /\ pool \in pools
    /\ dirs = {}
    /\ dest = {}
    /\ pasted = {}
    /\ merged = {}
    /\ logged = {}
    /\ os_name = "unresolved"
    /\ hist = <<>>
    /\ lastPool = pool
    /\ lastListing = [c \in Cameras |-> <<>>]
    /\ earlier = NoEarlierRun

Init == InitialState(InitialPools)

\* Line 222: the spreadsheet is read.
ImportLog ==
    /\ pc = "start"
    /\ pc' = "loop"
    /\ UNCHANGED <<err, log, current_date, base_path, batch_counter, trial_counters,
                   batch_path, pool, dirs, dest, pasted, merged, logged, os_name,
                   hist, lastPool, lastListing, earlier>>

\* Lines 46-48 without the raise: the error would be logged and the loop
\* entered all the same.
ImportLogFailsSwallowed ==
    /\ pc = "start"
    /\ pc' = "loop"
    /\ err' = "ReadError"
    /\ logged' = logged \cup {[level |-> "ERROR", what |-> "Error reading Excel file",
                               row |-> 0, cam |-> "", file |-> 0]}
    /\ UNCHANGED <<log, current_date, base_path, batch_counter, trial_counters,
                   batch_path, pool, dirs, dest, pasted, merged, os_name, hist,
                   lastPool, lastListing, earlier>>

\* Lines 46-48: read_excel raises; the error is logged and raised again.
ImportLogFails ==
    /\ pc = "start"
    /\ pc' = "crashed"
    /\ err' = "ReadError"
    /\ logged' = logged \cup {[level |-> "ERROR", what |-> "Error reading Excel file",
                               row |-> 0, cam |-> "", file |-> 0]}
    /\ UNCHANGED <<log, current_date, base_path, batch_counter, trial_counters,
                   batch_path, pool, dirs, dest, pasted, merged, os_name, hist,
                   lastPool, lastListing, earlier>>

\* Line 228 on a row whose Date cell is NaT: strftime raises ValueError, and
\* nothing in the loop catches it.
RowBadDate ==
    /\ pc = "loop"
    /\ Len(log) < RowLimit
    /\ \E row \in InvalidRows \cap NextRows : log' = Append(log, row)
    /\ pc' = "crashed"
    /\ err' = "ValueError"
    /\ hist' = Append(hist, [num |-> 0, root |-> Unbound,
                             sel |-> [c \in Cameras |-> NoVideo],
                             scanned |-> {}, copied |-> {}, done |-> FALSE])
    /\ lastPool' = pool
    /\ lastListing' = [c \in Cameras |-> <<>>]
    /\ UNCHANGED <<current_date, base_path, batch_counter, trial_counters, batch_path,
                   pool, dirs, dest, pasted, merged, logged, os_name, earlier>>

\* The camera folders are independent of each other and os.rename differs
\* between platforms only where the new name is taken: the order of the camera
\* folders and the platform change the outcome of a row only when some camera
\* folder raises or some rename meets a taken name. Each row is therefore run
\* once (any order, POSIX), and the other orders and platforms are enumerated
\* only when that run raises or meets a taken name.
AnyCameraOrder == CHOOSE o \in CameraOrders : TRUE

OrdersThatMatter(first) ==
    IF first.err = "none" /\ ~first.clash THEN {AnyCameraOrder} ELSE CameraOrders

PlatformsThatMatter(first) ==
    IF first.err = "none" /\ ~first.clash THEN {"posix"} ELSE Platforms

\* Lines 228-251 on a calibration row: the values of the locals and of the
\* file system when the iteration ends or raises.
CalibrationRow(row, camera_folders, listing, platform) ==
    LET index == Len(log)
        s == Session(StrftimeDate(row.Date))
        path == BatchPath(s.base_path, s.batch_counter)
        intrinsics == Join(Join(path, "calibration"), "intrinsics")
        extrinsics == Join(Join(path, "calibration"), "extrinsics")
        mv == MoveVideos([pool |-> pool,
                          dirs |-> CreateFolderStructure(s.dirs, path, ""),
                          dest |-> dest, logged |-> logged],
                         camera_folders, listing, extrinsics,
                         Combine(row.Date, row.Time), row.Trials,
                         CalibrationName(s.batch_counter), index, platform)
        ok == mv.exc = "none"
    IN  [current_date   |-> s.current_date,
         base_path      |-> s.base_path,
         trial_counters |-> s.trial_counters,
         batch_path     |-> path,
         pasted         |-> pasted \cup {path},
         pool           |-> mv.pool,
         dirs           |-> mv.dirs,
         dest           |-> mv.dest,
         os_name        |-> IF mv.clash THEN platform ELSE os_name,
         clash          |-> mv.clash,
         merged         |-> IF ok THEN merged \cup {intrinsics} ELSE merged,
         batch_counter  |-> IF ok THEN NextBatchCounter(s.batch_counter)
                                  ELSE s.batch_counter,
         logged         |-> IF ok THEN mv.logged \cup {Info(index)} ELSE mv.logged,
         pc             |-> IF ok THEN "loop" ELSE "crashed",
         err            |-> mv.exc,
         done           |-> [num |-> s.batch_counter, root |-> path, sel |-> mv.sel,
                             scanned |-> mv.scanned, copied |-> mv.copied,
                             done |-> ok]]

RowCalibration ==
    /\ pc = "loop"
    /\ Len(log) < RowLimit
    /\ \E row \in CalibrationRows \cap NextRows : \E listing \in Listings(pool) :
       \E first \in {CalibrationRow(row, AnyCameraOrder, listing, "posix")} :
       \E camera_folders \in OrdersThatMatter(first) :
       \E platform \in PlatformsThatMatter(first) :
       \E n \in {CalibrationRow(row, camera_folders, listing, platform)} :
           /\ log' = Append(log, row)
           /\ current_date' = n.current_date
           /\ base_path' = n.base_path
           /\ trial_counters' = n.trial_counters
           /\ batch_path' = n.batch_path
           /\ pasted' = n.pasted
           /\ pool' = n.pool
           /\ dirs' = n.dirs
           /\ dest' = n.dest
           /\ os_name' = n.os_name
           /\ merged' = n.merged
           /\ batch_counter' = n.batch_counter
           /\ logged' = n.logged
           /\ pc' = n.pc
           /\ err' = n.err
           /\ hist' = Append(hist, n.done)
           /\ lastPool' = pool
           /\ lastListing' = listing
           /\ UNCHANGED earlier

\* Lines 228-260 on any other row, once a calibration row has bound batch_path:
\* the values of the locals and of the file system when the iteration ends or
\* raises.
TrialRow(row, camera_folders, listing, platform) ==
    LET index == Len(log)
        s == Session(StrftimeDate(row.Date))
        trial_counter == NextTrialCounter(s.trial_counters, row.AthleteID)
        trial_name == TrialName(row.AthleteID, trial_counter)
        trial_path == TrialPath(batch_path, trial_name)
        mv == MoveVideos([pool |-> pool,
                          dirs |-> CreateFolderStructure(s.dirs, batch_path, trial_name),
                          dest |-> dest, logged |-> logged],
                         camera_folders, listing, trial_path,
                         Combine(row.Date, row.Time), row.Trials,
                         trial_name, index, platform)
        ok == mv.exc = "none"
    IN  [current_date   |-> s.current_date,
         base_path      |-> s.base_path,
         batch_counter  |-> s.batch_counter,
         trial_counters |-> Put(s.trial_counters, row.AthleteID, trial_counter),
         pasted         |-> pasted \cup {trial_path},
         pool           |-> mv.pool,
         dirs           |-> mv.dirs,
         dest           |-> mv.dest,
         os_name        |-> IF mv.clash THEN platform ELSE os_name,
         clash          |-> mv.clash,
         logged         |-> IF ok THEN mv.logged \cup {Info(index)} ELSE mv.logged,
         pc             |-> IF ok THEN "loop" ELSE "crashed",
         err            |-> mv.exc,
         done           |-> [num |-> trial_counter, root |-> trial_path, sel |-> mv.sel,
                             scanned |-> mv.scanned, copied |-> mv.copied,
                             done |-> ok]]

RowTrial ==
    /\ pc = "loop"
    /\ Len(log) < RowLimit
    /\ batch_path # Unbound
    /\ \E row \in TrialRows \cap NextRows : \E listing \in Listings(pool) :
       \E first \in {TrialRow(row, AnyCameraOrder, listing, "posix")} :
       \E camera_folders \in OrdersThatMatter(first) :
       \E platform \in PlatformsThatMatter(first) :
       \E n \in {TrialRow(row, camera_folders, listing, platform)} :
           /\ log' = Append(log, row)
           /\ current_date' = n.current_date
           /\ base_path' = n.base_path
           /\ batch_counter' = n.batch_counter
           /\ trial_counters' = n.trial_counters
           /\ pasted' = n.pasted
           /\ pool' = n.pool
           /\ dirs' = n.dirs
           /\ dest' = n.dest
           /\ os_name' = n.os_name
           /\ logged' = n.logged
           /\ pc' = n.pc
           /\ err' = n.err
           /\ hist' = Append(hist, n.done)
           /\ lastPool' = pool
           /\ lastListing' = listing
           /\ UNCHANGED <<batch_path, merged, earlier>>

\* Lines 228-257 on a non-calibration row while batch_path is still unbound:
\* reading it at line 257 raises UnboundLocalError.
RowTrialNoBatch ==
    /\ pc = "loop"
    /\ Len(log) < RowLimit
    /\ batch_path = Unbound
    /\ \E row \in TrialRows \cap NextRows : \E s \in {Session(StrftimeDate(row.Date))} :
         \E trial_counter \in {NextTrialCounter(s.trial_counters, row.AthleteID)} :
           /\ log' = Append(log, row)
           /\ current_date' = s.current_date
           /\ base_path' = s.base_path
           /\ batch_counter' = s.batch_counter
           /\ trial_counters' = Put(s.trial_counters, row.AthleteID, trial_counter)
           /\ dirs' = s.dirs
           /\ pc' = "crashed"
           /\ err' = "UnboundLocalError"
           /\ hist' = Append(hist, [num |-> trial_counter, root |-> Unbound,
                                    sel |-> [c \in Cameras |-> NoVideo],
                                    scanned |-> {}, copied |-> {}, done |-> FALSE])
           /\ lastPool' = pool
           /\ lastListing' = [c \in Cameras |-> <<>>]
           /\ UNCHANGED <<batch_path, pool, dest, pasted, merged, logged, os_name, earlier>>

\* iterrows is exhausted: organize_videos returns.
EndOfLog ==
    /\ pc = "loop"
    /\ earlier.done => Len(log) = Len(earlier.log)
    /\ pc' = "done"
    /\ UNCHANGED <<err, log, current_date, base_path, batch_counter, trial_counters,
                   batch_path, pool, dirs, dest, pasted, merged, logged, os_name,
                   hist, lastPool, lastListing, earlier>>

Next ==
    \/ ImportLog
    \/ ImportLogFails
    \/ RowBadDate
    \/ RowCalibration
    \/ RowTrial
    \/ RowTrialNoBatch
    \/ EndOfLog

Spec == Init /\ [][Next]_vars

\* organize_videos is run again, with the same log, on the source tree and the
\* destination the first run left.
RunAgain ==
    /\ pc = "done"
    /\ ~earlier.done
    /\ earlier' = [done |-> TRUE, log |-> log, hist |-> hist, dest |-> dest]
    /\ pc' = "start"
    /\ log' = <<>>
    /\ hist' = <<>>
    /\ current_date' = "None"
    /\ base_path' = Unbound
    /\ batch_counter' = 0
    /\ trial_counters' = EmptyDict
    /\ batch_path' = Unbound
    /\ lastPool' = pool
    /\ lastListing' = [c \in Cameras |-> <<>>]
    /\ UNCHANGED <<err, pool, dirs, dest, pasted, merged, logged, os_name>>

NextRerun ==
    \/ Next
    \/ RunAgain

SpecRerun == Init /\ [][NextRerun]_vars

\* The same program on the source trees whose videos lie around the change to
\* daylight-saving time.
InitDst == InitialState(DstPools)

SpecDst == InitDst /\ [][Next]_vars

----------------------------------------------------------------------------
(* Vocabulary of the properties *)

IsCalibration(i) == log[i] \in CalibrationRows

IsTrial(i) == log[i] \in TrialRows

\* Row i reached move_videos.
Moved(i) == hist[i].root # Unbound

\* The first row of the session row i belongs to: sessions are the maximal runs
\* of consecutive rows with one date (line 234).
SessionStart(i) ==
    CHOOSE j \in 1..i :
        /\ \A k \in j..i : log[k].Date = log[i].Date
        /\ j = 1 \/ log[j - 1].Date # log[i].Date

\* The calibration rows of row i's session that precede row i.
CalibrationsBefore(i) == { j \in SessionStart(i)..(i - 1) : IsCalibration(j) }

DateLeq(a, b) ==
    \/ a.y < b.y
    \/ a.y = b.y /\ a.m < b.m
    \/ a.y = b.y /\ a.m = b.m /\ a.d <= b.d

NonDecreasingDates ==
    \A i \in DOMAIN log : \A j \in DOMAIN log :
        (i <= j /\ log[i] \in ValidRows /\ log[j] \in ValidRows)
            => DateLeq(log[i].Date, log[j].Date)

Readable(p, f) == GetVideoCreationTime(p[f].meta).kind = "value"

\* Absolute distance in seconds between the creation instant of video f and
\* the instant row i names.
Delta(p, f, i) ==
    Abs(TotalSeconds(ConvertToLocalTime(Strptime(p[f].meta), TRUE),
                     ConvertToLocalTime(Combine(log[i].Date, log[i].Time), FALSE)))

\* Position of video f in a listing.
Position(listing, f) == CHOOSE k \in DOMAIN listing : listing[k] = f

----------------------------------------------------------------------------
(* C1: each physical video of a camera folder is selected by move_videos for at
   most one log row: a video chosen for one row is never chosen again for a
   later row. *)
C1_EachVideoMatchedOnce ==
    \A i \in DOMAIN hist : \A j \in DOMAIN hist : \A c \in Cameras :
        (i < j /\ hist[i].sel[c] # NoVideo) => hist[j].sel[c] # hist[i].sel[c]

(* C2: a non-calibration row with no preceding calibration row in its session
   aborts the run with an error and is never placed into a batch, be it the
   first row of the log or the first row of a later session. *)
C2_TrialWithoutCalibrationAborts ==
    \A i \in DOMAIN hist :
        (IsTrial(i) /\ CalibrationsBefore(i) = {})
            => /\ pc = "crashed"
               /\ i = Len(hist)
               /\ ~hist[i].done
               /\ ~Moved(i)

(* C3: when the dates of the log never decrease, the batch numbers used for the
   calibration rows of one session are 1, 2, ..., k in encounter order: the
   number used for a calibration row is the number of calibration rows of its
   date up to and including it, whatever other rows lie between, and the batch
   folder is named after it. *)
C3_BatchNumbersCountCalibrations ==
    NonDecreasingDates =>
        \A i \in DOMAIN hist :
            IsCalibration(i) =>
                LET k == Cardinality({ j \in 1..i : /\ IsCalibration(j)
                                                    /\ log[j].Date = log[i].Date })
                IN  /\ hist[i].num = k
                    /\ hist[i].root = << "Session_" \o StrftimeDate(log[i].Date),
                                         "BatchSession_" \o ToString(k) >>

\* A second calibration row of a session, after a trial row of that session.
C3_Witness ==
    /\ NonDecreasingDates
    /\ \E i \in DOMAIN hist : \E j \in DOMAIN hist : \E k \in DOMAIN hist :
        /\ i < j /\ j < k
        /\ IsCalibration(i) /\ IsTrial(j) /\ IsCalibration(k)
        /\ log[i].Date = log[k].Date /\ log[j].Date = log[k].Date
        /\ hist[k].done
        /\ hist[k].num = 2

(* C4: in every session the trial counter given to a non-calibration row of
   subject s is the number of non-calibration rows of s in that session up to
   and including it (1, 2, ..., m in row order), whatever rows of other
   subjects and calibration rows lie between. *)
C4_TrialCountersPerSubject ==
    \A i \in DOMAIN hist :
        IsTrial(i) =>
            hist[i].num =
                Cardinality({ j \in SessionStart(i)..i :
                                /\ IsTrial(j)
                                /\ log[j].AthleteID = log[i].AthleteID })

\* Two subjects interleaved in one session: the second subject starts at 1
\* after the first one was counted.
C4_Witness ==
    \E i \in DOMAIN hist : \E j \in DOMAIN hist :
        /\ i < j
        /\ IsTrial(i) /\ IsTrial(j)
        /\ SessionStart(i) = SessionStart(j)
        /\ log[i].AthleteID # log[j].AthleteID
        /\ hist[i].done /\ hist[j].done
        /\ hist[i].num = 1 /\ hist[j].num = 1

(* C5: for every camera folder move_videos handles for a row, either one video
   is selected and copied to the row's destination, or a log entry or error
   names that camera and row: a camera without a usable candidate is never
   skipped silently. *)
C5_NoSilentSkip ==
    \A i \in DOMAIN hist : \A c \in hist[i].scanned :
        \/ /\ hist[i].sel[c] # NoVideo
           /\ \E e \in hist[i].copied : e.content = hist[i].sel[c]
        \/ \E l \in logged : l.row = i - 1 /\ l.cam = c

\* The localized time of row i, as move_videos computes it at line 153.
TargetTime(i) == ConvertToLocalTime(Combine(log[i].Date, log[i].Time), FALSE)

(* C6: when the creation time of a video cannot be read (probe failure, tag
   absent, unparsable value), the video is left out of the matching, and
   move_videos still handles every camera folder and the run goes on to the
   later rows. *)
C6_UnreadableVideoIsSkipped ==
    \A i \in DOMAIN hist :
        (/\ i = Len(hist)
         /\ Moved(i)
         /\ \E f \in DOMAIN lastPool : ~Readable(lastPool, f))
            => /\ hist[i].scanned = Cameras \/ err = "FileExistsError"
               /\ pc # "crashed" \/ err = "FileExistsError"
               /\ \A c \in Cameras :
                      hist[i].sel[c] # NoVideo => Readable(lastPool, hist[i].sel[c])

(* C7: the video move_videos chooses in a camera folder does not depend on the
   order in which the directory listing enumerates the folder: every listing
   order of the same folder yields the chosen video. *)
C7_ChoiceIndependentOfListingOrder ==
    \A i \in DOMAIN hist :
        (i = Len(hist) /\ Moved(i))
            => \A c \in Cameras :
                   hist[i].sel[c] # NoVideo
                       => \A l \in PermsOf(FilesIn(lastPool, c)) :
                              ClosestVideo(l, lastPool, TargetTime(i)).video
                                  = hist[i].sel[c]

(* C8: in every camera folder move_videos has scanned for a row, the selected
   video has a readable creation time and the least absolute time delta to the
   row's time among the readable videos of the folder; among equally close
   videos it is the first one of the listing; and no video is selected exactly
   when the folder holds no readable video. *)
C8_ClosestReadableVideoSelected ==
    \A i \in DOMAIN hist :
        (i = Len(hist) /\ Moved(i))
            => \A c \in hist[i].scanned \cup { k \in Cameras : hist[i].sel[k] # NoVideo } :
                   LET readable == { f \in FilesIn(lastPool, c) : Readable(lastPool, f) }
                       v == hist[i].sel[c]
                   IN  /\ v = NoVideo <=> readable = {}
                       /\ v # NoVideo =>
                            /\ v \in readable
                            /\ \A g \in readable :
                                 /\ Delta(lastPool, v, i) <= Delta(lastPool, g, i)
                                 /\ Delta(lastPool, g, i) = Delta(lastPool, v, i)
                                      => Position(lastListing[c], v)
                                             <= Position(lastListing[c], g)

\* Two readable videos equally close to the row's time: the first of the
\* listing is chosen, here the one with the larger id.
C8_Witness ==
    /\ Len(hist) > 0
    /\ hist[Len(hist)].done
    /\ \E c \in Cameras :
        /\ Len(lastListing[c]) = 2
        /\ lastListing[c][1] > lastListing[c][2]
        /\ \A f \in FilesIn(lastPool, c) : Readable(lastPool, f)
        /\ Delta(lastPool, lastListing[c][1], Len(hist))
             = Delta(lastPool, lastListing[c][2], Len(hist))
        /\ hist[Len(hist)].sel[c] = lastListing[c][1]

\* The trial directory of row i when the batch of the most recent calibration
\* row of its session is current.
ExpectedTrialRoot(i) ==
    LET c == CHOOSE j \in CalibrationsBefore(i) :
                 \A k \in CalibrationsBefore(i) : k <= j
        n == Cardinality({ j \in SessionStart(i)..i :
                             IsTrial(j) /\ log[j].AthleteID = log[i].AthleteID })
    IN  Append(hist[c].root, "Trial_" \o log[i].AthleteID \o "_" \o ToString(n))

(* C9: a non-calibration row preceded by a calibration row in its session gets
   the directory Trial_<subjectId>_<counter> inside the batch folder of the
   most recent such calibration row, its videos are copied into the videos
   subdirectory of it, and the current batch changes only at a calibration
   row. *)
C9_TrialDirectoryUnderCurrentBatch ==
    /\ [](\A i \in DOMAIN hist :
            (IsTrial(i) /\ CalibrationsBefore(i) # {})
                => /\ hist[i].root = ExpectedTrialRoot(i)
                   /\ \A e \in hist[i].copied : e.dir = Append(hist[i].root, "videos"))
    /\ [][batch_path' # batch_path
            => /\ Len(log') = Len(log) + 1
               /\ log'[Len(log')] \in CalibrationRows]_vars

\* A trial row after the second calibration row of its session, with a video
\* copied into the second batch.
C9_Witness ==
    \E i \in DOMAIN hist :
        /\ IsTrial(i)
        /\ Cardinality(CalibrationsBefore(i)) = 2
        /\ hist[i].done
        /\ hist[i].copied # {}
        /\ hist[i].root[2] = "BatchSession_2"

(* C10: a row whose date and time give no valid timestamp is skipped alone:
   nothing is created, counted, renamed or copied for it, and the run goes on
   to the later rows. *)
C10_BadTimestampSkipsRowOnly ==
    \A i \in DOMAIN log :
        log[i] \in InvalidRows
            => /\ pc # "crashed"
               /\ hist[i].copied = {}
               /\ ~Moved(i)

\* The log of the end-to-end scenario: one calibration row, then trial rows of
\* one subject, all on one date.
EndToEndLog ==
    /\ Len(log) >= 1
    /\ IsCalibration(1)
    /\ \A i \in 2..Len(log) :
          /\ IsTrial(i)
          /\ log[i].Date = log[1].Date
          /\ log[i].AthleteID = log[2].AthleteID

\* The wall-clock time of row i as the cells of the log give it, to the minute.
RowStamp(i) ==
    StrftimeDate(log[i].Date) \o "_" \o Pad2(log[i].Time.h) \o "h" \o Pad2(log[i].Time.m)

\* Directory and name of each file of a set of copies.
Files(copies) == { [dir |-> e.dir, name |-> e.name] : e \in copies }

(* C11: when organize_videos returns from a log made of one calibration row
   followed by n trial rows of one subject S, all on one date D, with a
   timestamped video in every camera folder, the destination holds
   Session_D/BatchSession_1/calibration/intrinsics, .../calibration/extrinsics/
   ext_<camera> for every camera and .../Trial_S_i/videos for i = 1..n, and
   the videos copied for a row are, one per camera, named
   <row time as YYYY-MM-DD_HHhMM>_<label>_<camera>.mp4 with the label
   calib_ext_1 for the calibration row and Trial_S_i for the i-th trial row. *)
C11_EndToEndLayout ==
    (/\ pc = "done"
     /\ EndToEndLog
     /\ \A c \in Cameras : \E f \in FilesIn(pool, c) : Readable(pool, f))
        => LET batch == << "Session_" \o StrftimeDate(log[1].Date), "BatchSession_1" >>
               trial(i) == Append(batch, "Trial_" \o log[i].AthleteID \o "_"
                                             \o ToString(i - 1))
           IN  /\ batch \o << "calibration", "intrinsics" >> \in dirs
               /\ \A c \in Cameras :
                     batch \o << "calibration", "extrinsics", "ext_" \o c >> \in dirs
               /\ Files(hist[1].copied) =
                     { [dir  |-> batch \o << "calibration", "extrinsics", "ext_" \o c >>,
                        name |-> RowStamp(1) \o "_calib_ext_1_" \o c \o ".mp4"] :
                       c \in Cameras }
               /\ \A i \in 2..Len(log) :
                     /\ Append(trial(i), "videos") \in dirs
                     /\ Files(hist[i].copied) =
                           { [dir  |-> Append(trial(i), "videos"),
                              name |-> RowStamp(i) \o "_Trial_" \o log[i].AthleteID
                                          \o "_" \o ToString(i - 1) \o "_" \o c
                                          \o ".mp4"] :
                             c \in Cameras }
               /\ \A i \in DOMAIN hist : hist[i].copied \subseteq dest

\* The scenario with two trial rows and a copy per camera and row.
C11_Witness ==
    /\ pc = "done"
    /\ EndToEndLog
    /\ Len(log) = 3
    /\ \A c \in Cameras : \E f \in FilesIn(pool, c) : Readable(pool, f)
    /\ Cardinality(dest) = 3 * Cardinality(Cameras)

(* C12: when reading the spreadsheet fails, organize_videos ends with the error
   before any change to the file system: no directory is created, no file is
   renamed and no file is copied. *)
C12_ReadErrorBeforeAnyMutation ==
    (\E l \in logged : l.what = "Error reading Excel file")
        => /\ pc = "crashed"
           /\ err = "ReadError"
           /\ log = <<>>
           /\ dirs = {}
           /\ dest = {}
           /\ pasted = {}
           /\ merged = {}
           /\ pool = lastPool
           /\ \A f \in DOMAIN pool : pool[f].name = OriginalName(f)

\* The read failed with videos in the source tree.
C12_Witness ==
    /\ err = "ReadError"
    /\ pc = "crashed"
    /\ DOMAIN pool # {}

\* Reading the creation time of video f raises out of get_video_creation_time.
Raises(p, f) == GetVideoCreationTime(p[f].meta).kind = "raise"

(* C13: a camera folder whose scan ends without a candidate is not fatal: the
   other camera folders of the row are still handled (one with a timestamped
   video gets its video selected), the row completes and the run stays in the
   loop for the later rows, and for that camera nothing is renamed and nothing
   is copied to the row's destination. *)
C13_NoCandidateIsNotFatal ==
    \A i \in DOMAIN hist : \A c \in hist[i].scanned :
        (i = Len(hist) /\ hist[i].sel[c] = NoVideo)
            => /\ \A f \in FilesIn(lastPool, c) :
                     f \in DOMAIN pool /\ pool[f].name = lastPool[f].name
               /\ \A e \in hist[i].copied : lastPool[e.content].cam # c
               /\ \A k \in Cameras \ {c} :
                     (/\ \E f \in FilesIn(lastPool, k) : Readable(lastPool, f)
                      /\ \A f \in FilesIn(lastPool, k) : ~Raises(lastPool, f))
                         => hist[i].sel[k] # NoVideo
               /\ hist[i].scanned = Cameras
                     => hist[i].done /\ err = "none" /\ pc \in {"loop", "done"}

\* A row with a camera folder without a candidate and a video copied from the
\* other camera folder, and a later row handled after it.
C13_Witness ==
    \E i \in DOMAIN hist : \E c \in Cameras : \E k \in Cameras :
        /\ i < Len(hist)
        /\ c \in hist[i].scanned
        /\ hist[i].sel[c] = NoVideo
        /\ hist[i].sel[k] # NoVideo
        /\ hist[i].copied # {}
        /\ hist[i].done
        /\ hist[Len(hist)].done

\* The instant row i names, in seconds of UTC: the rows of the model lie on
\* March 8, when Montreal is 5 hours behind UTC, and on March 9 after 03:00,
\* when it is 4 hours behind.
RowInstant(i) ==
    Combine(log[i].Date, log[i].Time)
        + (IF log[i].Date.d <= 8 THEN 5 ELSE 4) * SecondsPerHour

(* C14: the delta used for matching compares instants: it is
   |video_utc - (row_local - zoneOffset(row_local))|, the row time read as
   wall-clock time of Montreal on its date and the creation time as UTC; the
   least delta found in a camera folder is the least such distance, and a
   video created at the row's instant has delta 0 and is selected, on standard
   time and on daylight-saving time. *)
C14_DeltaComparesInstants ==
    \A i \in DOMAIN hist :
        (i = Len(hist) /\ Moved(i))
            => \A c \in Cameras :
                   LET scan == ClosestVideo(lastListing[c], lastPool, TargetTime(i))
                       dist(f) == Abs(Strptime(lastPool[f].meta) - RowInstant(i))
                   IN  /\ \A f \in FilesIn(lastPool, c) :
                             Readable(lastPool, f) => Delta(lastPool, f, i) = dist(f)
                       /\ (c \in hist[i].scanned /\ hist[i].sel[c] # NoVideo)
                             => /\ scan.video = hist[i].sel[c]
                                /\ scan.diff = dist(hist[i].sel[c])
                                /\ \A f \in FilesIn(lastPool, c) :
                                      Readable(lastPool, f) => scan.diff <= dist(f)
                                /\ (\E f \in FilesIn(lastPool, c) :
                                        /\ Readable(lastPool, f)
                                        /\ Strptime(lastPool[f].meta) = RowInstant(i))
                                      => scan.diff = 0

\* The source tree with the four videos: the row of March 8 took the video of
\* 15:00:30Z and the row of March 9 the video of 14:00:30Z, each listed after
\* the video one hour off.
C14_Witness ==
    \E i \in DOMAIN hist : \E c \in Cameras : \E k \in Cameras :
        /\ i + 1 = Len(hist)
        /\ log[i].Date = March(8) /\ log[i + 1].Date = March(9)
        /\ hist[i].done /\ hist[i + 1].done
        /\ Cardinality(DOMAIN pool) = 4
        /\ hist[i].sel[c] # NoVideo /\ hist[i + 1].sel[k] # NoVideo
        /\ pool[hist[i].sel[c]].meta = Stamp(8, 15, 0, 30)
        /\ pool[hist[i + 1].sel[k]].meta = Stamp(9, 14, 0, 30)
        /\ lastListing[k][2] = hist[i + 1].sel[k]

(* C15: every directory created and every video copied for a row lies under
   the session root Session_<date of that row>: no row's output is placed
   under the session root of another date. *)
C15_OutputUnderOwnSessionRoot ==
    \A i \in DOMAIN hist :
        Moved(i) =>
            LET root == "Session_" \o StrftimeDate(log[i].Date)
            IN  /\ hist[i].root[1] = root
                /\ \A e \in hist[i].copied : e.dir[1] = root

(* C16: two distinct rows never get the same destination directory: distinct
   calibration rows get distinct batch roots and distinct trial rows distinct
   Trial_<subjectId>_<counter> directories, also when a date reappears after
   another date and when a session begins with a trial row. *)
C16_DistinctRowsDistinctDirectories ==
    \A i \in DOMAIN hist : \A j \in DOMAIN hist :
        (i < j /\ Moved(i) /\ Moved(j)) => hist[i].root # hist[j].root

(* C17: every row conserves the source pool of every camera: the rename in
   place removes, overwrites and duplicates no video, so each camera folder
   holds after the row the physical videos it held before it, with their
   creation times; only names change. *)
C17_SourcePoolConserved ==
    /\ DOMAIN pool = DOMAIN lastPool
    /\ \A f \in DOMAIN pool :
          /\ pool[f].cam = lastPool[f].cam
          /\ pool[f].meta = lastPool[f].meta
    /\ \A f \in DOMAIN pool : \A g \in DOMAIN pool :
          (pool[f].cam = pool[g].cam /\ pool[f].name = pool[g].name) => f = g

(* C18: a second run of organize_videos with the same log, on the source tree
   the first run left, selects for every row and camera the physical video the
   first run selected, and the destination tree when it returns is the one the
   first run left. *)
C18_SecondRunSelectsSameVideos ==
    earlier.done =>
        /\ \A k \in DOMAIN hist : hist[k].sel = earlier.hist[k].sel
        /\ pc = "done" => dest = earlier.dest

====
